---- MODULE Spec2Model ----
(***************************************************************************)
(* doru: the in-memory TodoManager (src/src/todo_manager.rs) over Todo     *)
(* items (src/src/todo.rs).  A state is one TodoManager instance together  *)
(* with a record of the last call made on it and what that call returned.  *)
(***************************************************************************)
EXTENDS Integers, Sequences, FiniteSets, TLC

VARIABLES
    id_counter,   \* TodoManager.id_counter : usize
    todos,        \* TodoManager.todos : Vec<Todo>
    origin,       \* "default" (TodoManager::default) or "new" (TodoManager::new)
    initial,      \* the Vec<Todo> handed to TodoManager::new (<<>> for default)
    addCount,     \* number of add_todo calls made on this manager so far
    last,         \* the last call: its name, arguments and return value
    deleted,      \* ids delete_todo removed while the ids were pairwise distinct
    file,         \* the durable file at the storage path, and what it holds
    sto,          \* the last JsonStorage call and what it returned
    pc,           \* where the command-line invocation stands
    cmd,          \* the subcommand of the invocation
    events,       \* the calls the invocation has made so far, in order
    runs,         \* number of invocations started
    before,       \* the durable file as the invocation found it
    issued,       \* the ids add_todo returned in the invocations so far
    other         \* the memory of a second process, while the first one runs

manager == <<id_counter, todos, origin, initial, addCount, last>>

storage == <<file, sto>>

cli == <<pc, cmd, events, runs, before, issued, other>>

vars == <<id_counter, todos, origin, initial, addCount, last, deleted,
          file, sto, pc, cmd, events, runs, before, issued, other>>

----------------------------------------------------------------------------
(* Bounds of the model *)

MaxAdds == 2      \* add_todo calls per manager

MaxRuns == 3      \* invocations of the command line, one after the other

(* usize, modelled 16 bits wide: arithmetic on it is modulo 2^UsizeBits *)
UsizeBits == 16
USIZE_MAX == 2^UsizeBits - 1

Contents == {"a", "b"}
\* the ids passed to the by-id methods: ids the lists hold and ids they lack
ArgIds   == {0, 1, 2, USIZE_MAX}

\* the ids of the lists handed to TodoManager::new: empty, a single id, a
\* repeated id, and distinct ids out of order holding 0 and the largest usize
ExistingIdSeqs == {<<>>, <<2>>, <<1, 1>>, <<USIZE_MAX, 0>>}

----------------------------------------------------------------------------
(* The text of the durable file: a sequence of characters *)

\* the location every call is given
Path == "todos.json"

\* no JsonStorage call made, no invocation started, no file looked at
NoFile == [exists |-> FALSE, readable |-> FALSE, writable |-> FALSE,
           text |-> <<>>, wf |-> FALSE, list |-> <<>>]

NoSto == [op |-> "none", res |-> "none", loc |-> Path, todos |-> <<>>]

NoCmd == [name |-> "none", id |-> 0, content |-> "", status |-> "Open",
          filter |-> FALSE]

\* no second process
NoProcess == [pc |-> "none"]

OutsideIdle ==
    /\ file = NoFile
    /\ sto = NoSto
    /\ pc = "none"
    /\ cmd = NoCmd
    /\ events = <<>>
    /\ runs = 0
    /\ before = NoFile
    /\ issued = {}
    /\ other = NoProcess

----------------------------------------------------------------------------
(* src/src/todo.rs *)

TodoStatus == {"Open", "InProgress", "Done"}

\* Todo::new(id, content): status starts Open
Todo(id, content) == [id |-> id, content |-> content, status |-> "Open"]

----------------------------------------------------------------------------
(* Iterator helpers used by TodoManager *)

\* todos.iter().map(|todo| todo.id()).max().unwrap_or(0)
RECURSIVE MaxId(_)
MaxId(ts) ==
    IF ts = <<>> THEN 0
    ELSE LET m == MaxId(Tail(ts))
         IN  IF Head(ts).id > m THEN Head(ts).id ELSE m

\* iter().position(|todo| todo.id() == id): index of the first match,
\* 0 standing for None (sequences are 1-based here)
RECURSIVE PositionFrom(_, _, _)
PositionFrom(ts, id, i) ==
    IF i > Len(ts) THEN 0
    ELSE IF ts[i].id = id THEN i
    ELSE PositionFrom(ts, id, i + 1)

Position(ts, id) == PositionFrom(ts, id, 1)

\* Vec::swap_remove: the last element takes the removed one's place
SwapRemove(ts, pos) ==
    IF pos = Len(ts) THEN SubSeq(ts, 1, Len(ts) - 1)
    ELSE SubSeq([ts EXCEPT ![pos] = ts[Len(ts)]], 1, Len(ts) - 1)

\* Vec::remove(position): shifts the elements after it to the left
Remove(ts, pos) == SubSeq(ts, 1, pos - 1) \o SubSeq(ts, pos + 1, Len(ts))

\* id_counter += 1 in a build without overflow checks
WrappingInc(c) == (c + 1) % (2^UsizeBits)

----------------------------------------------------------------------------
(* The record of the last call *)

NoArg == [id |-> 0, content |-> "", status |-> "Open"]

Call(op, arg, res, resId, resTodos) ==
    [op |-> op, id |-> arg.id, content |-> arg.content, status |-> arg.status,
     res |-> res, resId |-> resId, resTodos |-> resTodos]

\* a panic unwinds out of the caller: the manager receives no further calls
Alive == last.res # "Panic"

----------------------------------------------------------------------------
(* Construction *)

\* the lists handed to TodoManager::new, built as the tests build them
Existing == {[i \in 1..Len(ids) |-> Todo(ids[i], "a")] : ids \in ExistingIdSeqs}

\* TodoManager::default(): #[derive(Default)]
Default ==
    /\ id_counter = 0
    /\ todos = <<>>
    /\ origin = "default"
    /\ initial = <<>>
    /\ addCount = 0
    /\ last = Call("default", NoArg, "Manager", 0, <<>>)

\* TodoManager::new(todos)
New(existing) ==
    /\ id_counter = MaxId(existing)
    /\ todos = existing
    /\ origin = "new"
    /\ initial = existing
    /\ addCount = 0
    /\ last = Call("new", NoArg, "Manager", 0, <<>>)

Init ==
    /\ \/ Default
       \/ \E existing \in Existing : New(existing)
    /\ deleted = {}
    /\ OutsideIdle

----------------------------------------------------------------------------
(* Operations of TodoManager *)

\* add_todo with the id taken from the length of the list instead of the counter
AddTodoLenId(content) ==
    /\ Alive
    /\ addCount < MaxAdds
    /\ addCount' = addCount + 1
    /\ todos' = Append(todos, Todo(Len(todos) + 1, content))
    /\ id_counter' = Len(todos) + 1
    /\ last' = Call("add_todo", [NoArg EXCEPT !.content = content],
                    "Id", Len(todos) + 1, <<>>)
    /\ UNCHANGED <<origin, initial>>

\* add_todo that gives the new todo the counter's value before the increment
AddTodoPostInc(content) ==
    /\ Alive
    /\ addCount < MaxAdds
    /\ addCount' = addCount + 1
    /\ id_counter' = WrappingInc(id_counter)
    /\ todos' = Append(todos, Todo(id_counter, content))
    /\ last' = Call("add_todo", [NoArg EXCEPT !.content = content],
                    "Id", id_counter, <<>>)
    /\ UNCHANGED <<origin, initial>>

\* change_todo_status that treats Done as final: a Done todo is left as it is
ChangeTodoStatusDoneFinal(id, state) ==
    /\ Alive
    /\ LET pos == Position(todos, id)
       IN  IF pos # 0 /\ todos[pos].status # "Done"
           THEN /\ todos' = [todos EXCEPT ![pos].status = state]
                /\ last' = Call("change_todo_status",
                                [NoArg EXCEPT !.id = id, !.status = state],
                                "Ok", 0, <<>>)
           ELSE /\ todos' = todos
                /\ last' = Call("change_todo_status",
                                [NoArg EXCEPT !.id = id, !.status = state],
                                "NotFound", id, <<>>)
    /\ UNCHANGED <<id_counter, origin, initial, addCount>>

\* add_todo(content): `self.id_counter += 1` overflows at USIZE_MAX; a build
\* with overflow checks panics there, a build without them wraps to 0
AddTodo(content) ==
    /\ Alive
    /\ addCount < MaxAdds
    /\ addCount' = addCount + 1
    /\ \/ /\ id_counter < USIZE_MAX
          /\ id_counter' = id_counter + 1
          /\ todos' = Append(todos, Todo(id_counter', content))
          /\ last' = Call("add_todo", [NoArg EXCEPT !.content = content],
                          "Id", todos'[Len(todos')].id, <<>>)
       \/ /\ id_counter = USIZE_MAX
          /\ id_counter' = WrappingInc(id_counter)
          /\ todos' = Append(todos, Todo(id_counter', content))
          /\ last' = Call("add_todo", [NoArg EXCEPT !.content = content],
                          "Id", todos'[Len(todos')].id, <<>>)
       \/ /\ id_counter = USIZE_MAX
          /\ UNCHANGED <<id_counter, todos>>
          /\ last' = Call("add_todo", [NoArg EXCEPT !.content = content],
                          "Panic", 0, <<>>)
    /\ UNCHANGED <<origin, initial>>

\* all_todos that collects from the back (iter().rev())
AllTodosRev ==
    /\ Alive
    /\ last' = Call("all_todos", NoArg, "List", 0,
                    [i \in 1..Len(todos) |-> todos[Len(todos) + 1 - i]])
    /\ UNCHANGED <<id_counter, todos, origin, initial, addCount>>

\* all_todos(): self.todos.iter().collect()
AllTodos ==
    /\ Alive
    /\ last' = Call("all_todos", NoArg, "List", 0, todos)
    /\ UNCHANGED <<id_counter, todos, origin, initial, addCount>>

\* a lookup that takes the id for an index into the list (id - 1)
FindByIndex(ts, id) ==
    IF id >= 1 /\ id <= Len(ts) THEN <<ts[id]>> ELSE <<>>

\* self.todos.iter().find(|todo| todo.id() == id): Some = <<todo>>, None = <<>>
Find(ts, id) ==
    LET matching == SelectSeq(ts, LAMBDA t : t.id = id)
    IN  IF matching = <<>> THEN <<>> ELSE <<Head(matching)>>

\* todo_by_id(id)
TodoById(id) ==
    /\ Alive
    /\ LET found == Find(todos, id)
       IN  last' = Call("todo_by_id", [NoArg EXCEPT !.id = id],
                        IF found = <<>> THEN "None" ELSE "Some", 0, found)
    /\ UNCHANGED <<id_counter, todos, origin, initial, addCount>>

\* a filter that stops at the first todo with another status (take_while)
RECURSIVE TakeWhileStatus(_, _)
TakeWhileStatus(ts, status) ==
    IF ts = <<>> \/ Head(ts).status # status THEN <<>>
    ELSE <<Head(ts)>> \o TakeWhileStatus(Tail(ts), status)

\* self.todos.iter().filter(|todo| todo.status == status).collect()
FilterStatus(ts, status) == SelectSeq(ts, LAMBDA t : t.status = status)

\* todos_by_status(status)
TodosByStatus(status) ==
    /\ Alive
    /\ last' = Call("todos_by_status", [NoArg EXCEPT !.status = status],
                    "List", 0, FilterStatus(todos, status))
    /\ UNCHANGED <<id_counter, todos, origin, initial, addCount>>

\* edit_todo_content that rebuilds the todo with Todo::new, resetting its status
EditTodoContentRebuild(id, content) ==
    /\ Alive
    /\ LET pos == Position(todos, id)
       IN  IF pos # 0
           THEN /\ todos' = [todos EXCEPT ![pos] = Todo(id, content)]
                /\ last' = Call("edit_todo_content",
                                [NoArg EXCEPT !.id = id, !.content = content],
                                "Ok", 0, <<>>)
           ELSE /\ todos' = todos
                /\ last' = Call("edit_todo_content",
                                [NoArg EXCEPT !.id = id, !.content = content],
                                "NotFound", id, <<>>)
    /\ UNCHANGED <<id_counter, origin, initial, addCount>>

\* edit_todo_content(id, content): iter_mut().find gives the first match
EditTodoContent(id, content) ==
    /\ Alive
    /\ LET pos == Position(todos, id)
       IN  IF pos # 0
           THEN /\ todos' = [todos EXCEPT ![pos].content = content]
                /\ last' = Call("edit_todo_content",
                                [NoArg EXCEPT !.id = id, !.content = content],
                                "Ok", 0, <<>>)
           ELSE /\ todos' = todos
                /\ last' = Call("edit_todo_content",
                                [NoArg EXCEPT !.id = id, !.content = content],
                                "NotFound", id, <<>>)
    /\ UNCHANGED <<id_counter, origin, initial, addCount>>

\* iter().rposition(|todo| todo.id() == id): index of the last match
RECURSIVE RPositionFrom(_, _, _)
RPositionFrom(ts, id, i) ==
    IF i < 1 THEN 0
    ELSE IF ts[i].id = id THEN i
    ELSE RPositionFrom(ts, id, i - 1)

\* change_todo_status that searches from the back (the last match)
ChangeTodoStatusLastMatch(id, state) ==
    /\ Alive
    /\ LET pos == RPositionFrom(todos, id, Len(todos))
       IN  IF pos # 0
           THEN /\ todos' = [todos EXCEPT ![pos].status = state]
                /\ last' = Call("change_todo_status",
                                [NoArg EXCEPT !.id = id, !.status = state],
                                "Ok", 0, <<>>)
           ELSE /\ todos' = todos
                /\ last' = Call("change_todo_status",
                                [NoArg EXCEPT !.id = id, !.status = state],
                                "NotFound", id, <<>>)
    /\ UNCHANGED <<id_counter, origin, initial, addCount>>

\* change_todo_status(id, state): iter_mut().find gives the first match
ChangeTodoStatus(id, state) ==
    /\ Alive
    /\ LET pos == Position(todos, id)
       IN  IF pos # 0
           THEN /\ todos' = [todos EXCEPT ![pos].status = state]
                /\ last' = Call("change_todo_status",
                                [NoArg EXCEPT !.id = id, !.status = state],
                                "Ok", 0, <<>>)
           ELSE /\ todos' = todos
                /\ last' = Call("change_todo_status",
                                [NoArg EXCEPT !.id = id, !.status = state],
                                "NotFound", id, <<>>)
    /\ UNCHANGED <<id_counter, origin, initial, addCount>>

\* delete_todo that removes the first todo when the id is not found
\* (position(..).unwrap_or(0)) and reports success
DeleteTodoUnwrapOr(id) ==
    /\ Alive
    /\ LET pos == Position(todos, id)
       IN  IF pos # 0 \/ todos # <<>>
           THEN /\ todos' = Remove(todos, IF pos # 0 THEN pos ELSE 1)
                /\ last' = Call("delete_todo", [NoArg EXCEPT !.id = id],
                                "Ok", 0, <<>>)
           ELSE /\ todos' = todos
                /\ last' = Call("delete_todo", [NoArg EXCEPT !.id = id],
                                "NotFound", id, <<>>)
    /\ UNCHANGED <<id_counter, origin, initial, addCount>>

\* delete_todo(id)
DeleteTodo(id) ==
    /\ Alive
    /\ LET pos == Position(todos, id)
       IN  IF pos # 0
           THEN /\ todos' = Remove(todos, pos)
                /\ last' = Call("delete_todo", [NoArg EXCEPT !.id = id],
                                "Ok", 0, <<>>)
           ELSE /\ todos' = todos
                /\ last' = Call("delete_todo", [NoArg EXCEPT !.id = id],
                                "NotFound", id, <<>>)
    /\ UNCHANGED <<id_counter, origin, initial, addCount>>

----------------------------------------------------------------------------
(* The manager under any sequence of calls *)

\* the ids removed by a successful delete_todo from a list of distinct ids
Deleted(id) ==
    IF last'.res = "Ok" /\ \A i, j \in 1..Len(todos) :
                               i # j => todos[i].id # todos[j].id
    THEN deleted \cup {id}
    ELSE deleted

Next ==
    \/ \E content \in Contents :
           AddTodo(content) /\ UNCHANGED <<deleted, storage, cli>>
    \/ AllTodos /\ UNCHANGED <<deleted, storage, cli>>
    \/ \E id \in ArgIds :
           TodoById(id) /\ UNCHANGED <<deleted, storage, cli>>
    \/ \E status \in TodoStatus :
           TodosByStatus(status) /\ UNCHANGED <<deleted, storage, cli>>
    \/ \E id \in ArgIds, content \in Contents :
           EditTodoContent(id, content) /\ UNCHANGED <<deleted, storage, cli>>
    \/ \E id \in ArgIds, state \in TodoStatus :
           ChangeTodoStatus(id, state) /\ UNCHANGED <<deleted, storage, cli>>
    \/ \E id \in ArgIds :
           DeleteTodo(id) /\ deleted' = Deleted(id) /\ UNCHANGED <<storage, cli>>

Spec == Init /\ [][Next]_vars

----------------------------------------------------------------------------
(* serde_json, as JsonStorage uses it on Vec<Todo> (src/src/storage/json_storage.rs) *)

\* the contents the stored todos carry, each with its characters: the plain
\* "a" and "b" and one that needs escaping (a quote and a backslash)
Texts == Contents \cup {"\"\\"}

TextChars(content) ==
    CASE content = "a" -> <<"a">>
      [] content = "b" -> <<"b">>
      [] content = "\"\\" -> <<"\"", "\\">>

StatusChars(status) ==
    CASE status = "Open" -> <<"O", "p", "e", "n">>
      [] status = "InProgress" ->
             <<"I", "n", "P", "r", "o", "g", "r", "e", "s", "s">>
      [] status = "Done" -> <<"D", "o", "n", "e">>

DigitChars == <<"0", "1", "2", "3", "4", "5", "6", "7", "8", "9">>

DigitSet == {DigitChars[d] : d \in 1..10}

DigitValue(c) == (CHOOSE d \in 1..10 : DigitChars[d] = c) - 1

\* whitespace between JSON tokens
JsonWs == {" ", "\n", "\t", "\r"}

\* char::is_whitespace, which str::trim strips: the form feed is one
RustWs == JsonWs \cup {"\f"}

\* the character at i, "" past the end
At(t, i) == IF i >= 1 /\ i <= Len(t) THEN t[i] ELSE ""

(* Serialize: serde_json::to_string, compact, fields in declaration order *)

RECURSIVE JsonNumber(_)
JsonNumber(n) ==
    IF n < 10 THEN <<DigitChars[n + 1]>>
    ELSE JsonNumber(n \div 10) \o <<DigitChars[(n % 10) + 1]>>

EscapeChar(c) ==
    CASE c = "\"" -> <<"\\", "\"">>
      [] c = "\\" -> <<"\\", "\\">>
      [] c = "\n" -> <<"\\", "n">>
      [] c = "\t" -> <<"\\", "t">>
      [] OTHER -> <<c>>

RECURSIVE EscapeFrom(_, _)
EscapeFrom(chars, i) ==
    IF i > Len(chars) THEN <<>>
    ELSE EscapeChar(chars[i]) \o EscapeFrom(chars, i + 1)

JsonString(chars) == <<"\"">> \o EscapeFrom(chars, 1) \o <<"\"">>

JsonTodo(todo) ==
    <<"{">> \o JsonString(<<"i", "d">>) \o <<":">> \o JsonNumber(todo.id)
    \o <<",">> \o JsonString(<<"c", "o", "n", "t", "e", "n", "t">>) \o <<":">>
    \o JsonString(TextChars(todo.content))
    \o <<",">> \o JsonString(<<"s", "t", "a", "t", "u", "s">>) \o <<":">>
    \o JsonString(StatusChars(todo.status))
    \o <<"}">>

RECURSIVE JsonTodosFrom(_, _)
JsonTodosFrom(list, i) ==
    IF i > Len(list) THEN <<>>
    ELSE (IF i > 1 THEN <<",">> ELSE <<>>) \o JsonTodo(list[i])
         \o JsonTodosFrom(list, i + 1)

\* serde_json::to_string(todos)
ToJsonString(list) == <<"[">> \o JsonTodosFrom(list, 1) \o <<"]">>

(* Deserialize: serde_json::from_str::<Vec<Todo>> *)

Fail == [ok |-> FALSE, at |-> 0, val |-> 0]

Got(at, val) == [ok |-> TRUE, at |-> at, val |-> val]

RECURSIVE SkipWs(_, _)
SkipWs(t, i) == IF At(t, i) \in JsonWs THEN SkipWs(t, i + 1) ELSE i

\* the characters of a string literal, read from just after its opening quote
RECURSIVE StrBody(_, _, _)
StrBody(t, i, acc) ==
    LET c == At(t, i)
        e == At(t, i + 1)
    IN  IF c = "" \/ c \in {"\n", "\t", "\r", "\f"} THEN Fail
        ELSE IF c = "\"" THEN Got(i + 1, acc)
        ELSE IF c = "\\"
             THEN IF e \in {"\"", "\\", "/"} THEN StrBody(t, i + 2, Append(acc, e))
                  ELSE IF e = "n" THEN StrBody(t, i + 2, Append(acc, "\n"))
                  ELSE IF e = "t" THEN StrBody(t, i + 2, Append(acc, "\t"))
                  ELSE Fail
        ELSE StrBody(t, i + 1, Append(acc, c))

ParseString(t, i) == IF At(t, i) = "\"" THEN StrBody(t, i + 1, <<>>) ELSE Fail

\* the digits of a usize: a value past usize::MAX is an error
RECURSIVE NumBody(_, _, _)
NumBody(t, i, acc) ==
    IF At(t, i) \in DigitSet
    THEN LET v == acc * 10 + DigitValue(At(t, i))
         IN  IF v > USIZE_MAX THEN Fail ELSE NumBody(t, i + 1, v)
    ELSE IF At(t, i) \in {".", "e", "E"} THEN Fail
    ELSE Got(i, acc)

\* a JSON number read as usize: no sign, no leading zero, no fraction
ParseUsize(t, i) ==
    IF At(t, i) \notin DigitSet THEN Fail
    ELSE IF At(t, i) = "0"
         THEN IF At(t, i + 1) \in DigitSet \cup {".", "e", "E"} THEN Fail
              ELSE Got(i + 1, 0)
    ELSE NumBody(t, i, 0)

\* the content of a todo from its string literal
ContentOf(r) ==
    IF r.ok /\ \E c \in Texts : TextChars(c) = r.val
    THEN Got(r.at, CHOOSE c \in Texts : TextChars(c) = r.val)
    ELSE Fail

\* a TodoStatus from its string literal: the name of a variant, nothing else
StatusOf(r) ==
    IF r.ok /\ \E st \in TodoStatus : StatusChars(st) = r.val
    THEN Got(r.at, CHOOSE st \in TodoStatus : StatusChars(st) = r.val)
    ELSE Fail

\* the value of a field of Todo; the value of any other field is ignored
\* (a string or a number here)
ParseField(t, i, key) ==
    IF key = <<"i", "d">> THEN ParseUsize(t, i)
    ELSE IF key = <<"c", "o", "n", "t", "e", "n", "t">>
         THEN ContentOf(ParseString(t, i))
    ELSE IF key = <<"s", "t", "a", "t", "u", "s">>
         THEN StatusOf(ParseString(t, i))
    ELSE IF At(t, i) = "\"" THEN ParseString(t, i)
    ELSE ParseUsize(t, i)

FieldNames ==
    {<<"i", "d">>, <<"c", "o", "n", "t", "e", "n", "t">>,
     <<"s", "t", "a", "t", "u", "s">>}

\* the members of an object, read from a key on; seen maps the fields of Todo
\* read so far to their values: a field twice or a field missing is an error
RECURSIVE Members(_, _, _)

\* after a member: a comma and the next member, or the closing brace
MemberEnd(t, next, now) ==
    IF At(t, next) = "," THEN Members(t, next + 1, now)
    ELSE IF At(t, next) = "}" /\ DOMAIN now = FieldNames
         THEN Got(next + 1,
                  [id |-> now[<<"i", "d">>],
                   content |-> now[<<"c", "o", "n", "t", "e", "n", "t">>],
                   status |-> now[<<"s", "t", "a", "t", "u", "s">>]])
    ELSE Fail

\* the value v read for the key k
MemberValue(t, k, v, seen) ==
    IF ~v.ok THEN Fail
    ELSE MemberEnd(t, SkipWs(t, v.at),
                   IF k.val \in FieldNames THEN (k.val :> v.val) @@ seen
                   ELSE seen)

\* the key k read, the colon expected at colon
MemberColon(t, k, colon, seen) ==
    IF At(t, colon) # ":" \/ k.val \in DOMAIN seen THEN Fail
    ELSE MemberValue(t, k, ParseField(t, SkipWs(t, colon + 1), k.val), seen)

MemberKey(t, k, seen) ==
    IF ~k.ok THEN Fail ELSE MemberColon(t, k, SkipWs(t, k.at), seen)

Members(t, i, seen) == MemberKey(t, ParseString(t, SkipWs(t, i)), seen)

ParseTodo(t, i) ==
    IF At(t, i) # "{" THEN Fail
    ELSE IF At(t, SkipWs(t, i + 1)) = "}" THEN Fail
    ELSE Members(t, i + 1, <<>>)

\* the elements of the array, read from an element on
RECURSIVE Elements(_, _, _)

\* after the element r: a comma and the next element, or the closing bracket
ElementEnd(t, r, next, acc) ==
    IF At(t, next) = "," THEN Elements(t, next + 1, Append(acc, r.val))
    ELSE IF At(t, next) = "]" THEN Got(next + 1, Append(acc, r.val))
    ELSE Fail

Element(t, r, acc) ==
    IF ~r.ok THEN Fail ELSE ElementEnd(t, r, SkipWs(t, r.at), acc)

Elements(t, i, acc) == Element(t, ParseTodo(t, SkipWs(t, i)), acc)

\* the array whose opening bracket is expected at open
ArrayAt(t, open) ==
    IF At(t, open) # "[" THEN Fail
    ELSE IF At(t, SkipWs(t, open + 1)) = "]"
         THEN Got(SkipWs(t, open + 1) + 1, <<>>)
    ELSE Elements(t, open + 1, <<>>)

\* nothing but whitespace may follow the value
EndOfText(t, r) == IF r.ok /\ SkipWs(t, r.at) = Len(t) + 1 THEN r ELSE Fail

\* serde_json::from_str(&json): one array of todos and nothing but whitespace
\* after it
FromStr(t) == EndOfText(t, ArrayAt(t, SkipWs(t, 1)))

----------------------------------------------------------------------------
(* The durable file (std::fs) *)

\* a file that exists and may be read and written; wf and list say what the
\* text is: whether it is a JSON array of todos, and of which todos
Stored(text, wf, list) ==
    [exists |-> TRUE, readable |-> TRUE, writable |-> TRUE,
     text |-> text, wf |-> wf, list |-> list]

\* an empty file
FileText1 ==
    Stored(<<>>,
           FALSE, <<>>)

\* spaces and a newline
FileText2 ==
    Stored(<<" ", "\n">>,
           FALSE, <<>>)

\* a form feed: whitespace to str::trim, not to JSON
FileText3 ==
    Stored(<<"\f">>,
           FALSE, <<>>)

\* the empty array
FileText4 ==
    Stored(<<"[", "]">>,
           TRUE, <<>>)

\* two todos and the newline writeln! adds
FileText5 ==
    Stored(<<"[", "{", "\"", "i", "d", "\"", ":", "0", ",", "\"", "c", "o", "n",
          "t", "e", "n", "t", "\"", ":", "\"", "a", "\"", ",", "\"", "s",
          "t", "a", "t", "u", "s", "\"", ":", "\"", "O", "p", "e", "n", "\"",
          "}", ",", "{", "\"", "i", "d", "\"", ":", "1", ",", "\"", "c", "o",
          "n", "t", "e", "n", "t", "\"", ":", "\"", "b", "\"", ",", "\"",
          "s", "t", "a", "t", "u", "s", "\"", ":", "\"", "O", "p", "e", "n",
          "\"", "}", "]", "\n">>,
           TRUE, <<[id |-> 0, content |-> "a", status |-> "Open"], [id |-> 1, content |-> "b", status |-> "Open"]>>)

\* fields in another order, spaces, escapes, the largest id
FileText6 ==
    Stored(<<"[", " ", "{", "\"", "s", "t", "a", "t", "u", "s", "\"", ":", "\"",
          "D", "o", "n", "e", "\"", ",", " ", "\"", "c", "o", "n", "t", "e",
          "n", "t", "\"", ":", "\"", "\\", "\"", "\\", "\\", "\"", ",", " ",
          "\"", "i", "d", "\"", ":", "6", "5", "5", "3", "5", "}", " ", "]">>,
           TRUE, <<[id |-> USIZE_MAX, content |-> "\"\\", status |-> "Done"]>>)

\* three todos, a repeated id, a field Todo lacks
FileText7 ==
    Stored(<<"[", "{", "\"", "i", "d", "\"", ":", "2", ",", "\"", "c", "o", "n",
          "t", "e", "n", "t", "\"", ":", "\"", "a", "\"", ",", "\"", "s",
          "t", "a", "t", "u", "s", "\"", ":", "\"", "I", "n", "P", "r", "o",
          "g", "r", "e", "s", "s", "\"", ",", "\"", "n", "o", "t", "e", "\"",
          ":", "7", "}", ",", "{", "\"", "i", "d", "\"", ":", "2", ",", "\"",
          "c", "o", "n", "t", "e", "n", "t", "\"", ":", "\"", "a", "\"", ",",
          "\"", "s", "t", "a", "t", "u", "s", "\"", ":", "\"", "D", "o", "n",
          "e", "\"", "}", ",", "{", "\"", "i", "d", "\"", ":", "1", ",",
          "\"", "c", "o", "n", "t", "e", "n", "t", "\"", ":", "\"", "b",
          "\"", ",", "\"", "s", "t", "a", "t", "u", "s", "\"", ":", "\"",
          "O", "p", "e", "n", "\"", "}", "]">>,
           TRUE, <<[id |-> 2, content |-> "a", status |-> "InProgress"], [id |-> 2, content |-> "a", status |-> "Done"], [id |-> 1, content |-> "b", status |-> "Open"]>>)

\* no JSON
FileText8 ==
    Stored(<<"L", "o", "r", "e", "m", " ", "i", "p", "s", "u", "m">>,
           FALSE, <<>>)

\* the array is not closed
FileText9 ==
    Stored(<<"[", "{", "\"", "i", "d", "\"", ":", "1", ",", "\"", "c", "o", "n",
          "t", "e", "n", "t", "\"", ":", "\"", "a", "\"", ",", "\"", "s",
          "t", "a", "t", "u", "s", "\"", ":", "\"", "O", "p", "e", "n", "\"",
          "}">>,
           FALSE, <<>>)

\* no such status
FileText10 ==
    Stored(<<"[", "{", "\"", "i", "d", "\"", ":", "1", ",", "\"", "c", "o", "n",
          "t", "e", "n", "t", "\"", ":", "\"", "a", "\"", ",", "\"", "s",
          "t", "a", "t", "u", "s", "\"", ":", "\"", "o", "p", "e", "n", "\"",
          "}", "]">>,
           FALSE, <<>>)

\* status is missing
FileText11 ==
    Stored(<<"[", "{", "\"", "i", "d", "\"", ":", "1", ",", "\"", "c", "o", "n",
          "t", "e", "n", "t", "\"", ":", "\"", "a", "\"", "}", "]">>,
           FALSE, <<>>)

\* a negative id
FileText12 ==
    Stored(<<"[", "{", "\"", "i", "d", "\"", ":", "-", "1", ",", "\"", "c", "o",
          "n", "t", "e", "n", "t", "\"", ":", "\"", "a", "\"", ",", "\"",
          "s", "t", "a", "t", "u", "s", "\"", ":", "\"", "O", "p", "e", "n",
          "\"", "}", "]">>,
           FALSE, <<>>)

\* an id past usize::MAX
FileText13 ==
    Stored(<<"[", "{", "\"", "i", "d", "\"", ":", "6", "5", "5", "3", "6", ",",
          "\"", "c", "o", "n", "t", "e", "n", "t", "\"", ":", "\"", "a",
          "\"", ",", "\"", "s", "t", "a", "t", "u", "s", "\"", ":", "\"",
          "O", "p", "e", "n", "\"", "}", "]">>,
           FALSE, <<>>)

\* an object, not an array
FileText14 ==
    Stored(<<"{", "}">>,
           FALSE, <<>>)

\* text after the array
FileText15 ==
    Stored(<<"[", "]", " ", "x">>,
           FALSE, <<>>)

\* a form feed before the array: not blank, not JSON
FileText16 ==
    Stored(<<"\f", "[", "]">>,
           FALSE, <<>>)

\* one todo, laid out over lines that end in CR LF
FileText17 ==
    Stored(<<"[", "\r", "\n", "\t", "{", "\"", "i", "d", "\"", ":", " ", "1",
          ",", " ", "\"", "c", "o", "n", "t", "e", "n", "t", "\"", ":", " ",
          "\"", "b", "\"", ",", " ", "\"", "s", "t", "a", "t", "u", "s",
          "\"", ":", " ", "\"", "D", "o", "n", "e", "\"", "}", "\r", "\n",
          "]", "\r", "\n">>,
           TRUE, <<[id |-> 1, content |-> "b", status |-> "Done"]>>)

\* a comma after the last todo
FileText18 ==
    Stored(<<"[", "{", "\"", "i", "d", "\"", ":", "1", ",", "\"", "c", "o", "n",
          "t", "e", "n", "t", "\"", ":", "\"", "a", "\"", ",", "\"", "s",
          "t", "a", "t", "u", "s", "\"", ":", "\"", "O", "p", "e", "n", "\"",
          "}", ",", "]">>,
           FALSE, <<>>)

\* a field twice
FileText19 ==
    Stored(<<"[", "{", "\"", "i", "d", "\"", ":", "1", ",", "\"", "i", "d",
          "\"", ":", "1", ",", "\"", "c", "o", "n", "t", "e", "n", "t", "\"",
          ":", "\"", "a", "\"", ",", "\"", "s", "t", "a", "t", "u", "s",
          "\"", ":", "\"", "O", "p", "e", "n", "\"", "}", "]">>,
           FALSE, <<>>)

\* the id is a string
FileText20 ==
    Stored(<<"[", "{", "\"", "i", "d", "\"", ":", "\"", "1", "\"", ",", "\"",
          "c", "o", "n", "t", "e", "n", "t", "\"", ":", "\"", "a", "\"", ",",
          "\"", "s", "t", "a", "t", "u", "s", "\"", ":", "\"", "O", "p", "e",
          "n", "\"", "}", "]">>,
           FALSE, <<>>)

\* a zero before the id
FileText21 ==
    Stored(<<"[", "{", "\"", "i", "d", "\"", ":", "0", "1", ",", "\"", "c", "o",
          "n", "t", "e", "n", "t", "\"", ":", "\"", "a", "\"", ",", "\"",
          "s", "t", "a", "t", "u", "s", "\"", ":", "\"", "O", "p", "e", "n",
          "\"", "}", "]">>,
           FALSE, <<>>)

\* the id has a fraction
FileText22 ==
    Stored(<<"[", "{", "\"", "i", "d", "\"", ":", "1", ".", "0", ",", "\"", "c",
          "o", "n", "t", "e", "n", "t", "\"", ":", "\"", "a", "\"", ",",
          "\"", "s", "t", "a", "t", "u", "s", "\"", ":", "\"", "O", "p", "e",
          "n", "\"", "}", "]">>,
           FALSE, <<>>)

\* null
FileText23 ==
    Stored(<<"n", "u", "l", "l">>,
           FALSE, <<>>)

\* an array where a todo is expected
FileText24 ==
    Stored(<<"[", "[", "]", "]">>,
           FALSE, <<>>)

\* the files a call may find at the path: the texts above, no file at all, a
\* file that may not be read and a file that may not be written
Files ==
    {FileText1, FileText2, FileText3, FileText4, FileText5, FileText6,
     FileText7, FileText8, FileText9, FileText10, FileText11, FileText12,
     FileText13, FileText14, FileText15, FileText16,
     FileText17, FileText18, FileText19, FileText20,
     FileText21, FileText22, FileText23, FileText24,
     NoFile,
     [FileText5 EXCEPT !.readable = FALSE],
     [FileText7 EXCEPT !.writable = FALSE],
     [FileText1 EXCEPT !.writable = FALSE],
     [FileText8 EXCEPT !.readable = FALSE, !.writable = FALSE]}

\* the lists handed to save
SaveLists ==
    {<<>>,
     <<[id |-> 1, content |-> "a", status |-> "Open"]>>,
     <<[id |-> 1, content |-> "b", status |-> "InProgress"],
       [id |-> 2, content |-> "a", status |-> "Done"]>>,
     <<[id |-> USIZE_MAX, content |-> "\"\\", status |-> "Done"],
       [id |-> 0, content |-> "b", status |-> "InProgress"],
       [id |-> 0, content |-> "a", status |-> "Open"]>>}

\* fs::read_to_string(path)
ReadToString(f) ==
    IF f.exists /\ f.readable THEN [ok |-> TRUE, text |-> f.text]
    ELSE [ok |-> FALSE, text |-> <<>>]

\* str::trim: leading and trailing whitespace removed
RECURSIVE TrimStart(_)
TrimStart(t) ==
    IF t # <<>> /\ Head(t) \in RustWs THEN TrimStart(Tail(t)) ELSE t

RECURSIVE TrimEnd(_)
TrimEnd(t) ==
    IF t # <<>> /\ t[Len(t)] \in RustWs THEN TrimEnd(SubSeq(t, 1, Len(t) - 1))
    ELSE t

Trim(t) == TrimEnd(TrimStart(t))

\* File::options().write(true).open(path) without truncate(true)
OpenNoTruncate(f) ==
    IF f.exists /\ f.writable THEN [ok |-> TRUE, file |-> f]
    ELSE [ok |-> FALSE, file |-> f]

\* File::options().write(true).create(true).truncate(true).open(path)
OpenCreateTruncate(f) ==
    IF f.exists /\ ~f.writable THEN [ok |-> FALSE, file |-> f]
    ELSE [ok |-> TRUE, file |-> Stored(<<>>, FALSE, <<>>)]

\* File::options().write(true).truncate(true).open(path): fails when there is
\* no file or it may not be written; on success the file is empty
OpenTruncate(f) ==
    IF f.exists /\ f.writable
    THEN [ok |-> TRUE, file |-> [f EXCEPT !.text = <<>>, !.wf = FALSE, !.list = <<>>]]
    ELSE [ok |-> FALSE, file |-> f]

\* the text of a file after n characters of json were written from its start
Written(f, json, n) ==
    SubSeq(json, 1, n) \o SubSeq(f.text, n + 1, Len(f.text))

\* write! may fail after any part of json went out; a part that is not empty
\* leaves an array that is not closed, so nothing, the first character and all
\* but the last character stand for the parts
PartialWrites(json) == {n \in {0, 1, Len(json) - 1} : n < Len(json)}

----------------------------------------------------------------------------
(* JsonStorage (src/src/storage/json_storage.rs) *)

StoCall(op, res, list) == [op |-> op, res |-> res, loc |-> Path, todos |-> list]

\* load without the check for a blank file
LoadNoBlankCheck(f) ==
    LET json == ReadToString(f)
        parsed == FromStr(json.text)
    IN  IF ~json.ok THEN StoCall("load", "FileError", <<>>)
        ELSE IF ~parsed.ok THEN StoCall("load", "ParseError", <<>>)
        ELSE StoCall("load", "Ok", parsed.val)

\* JsonStorage::load(path): what it returns
Load(f) ==
    LET json == ReadToString(f)
        parsed == FromStr(json.text)
    IN  IF ~json.ok THEN StoCall("load", "FileError", <<>>)
        ELSE IF Trim(json.text) = <<>> THEN StoCall("load", "Ok", <<>>)
        ELSE IF ~parsed.ok THEN StoCall("load", "ParseError", <<>>)
        ELSE StoCall("load", "Ok", parsed.val)

\* JsonStorage::save(todos, path): serialize, open, write.  Serializing a
\* Vec<&Todo> cannot fail, so SerializeError is never returned
Save(list) ==
    LET json == ToJsonString(list)
        opened == OpenTruncate(file)
    IN  \/ /\ ~opened.ok
           /\ file' = opened.file
           /\ sto' = StoCall("save", "FileError", list)
        \/ /\ opened.ok
           /\ file' = [opened.file EXCEPT
                           !.text = Written(opened.file, json, Len(json)),
                           !.wf = TRUE, !.list = list]
           /\ sto' = StoCall("save", "Ok", list)
        \/ /\ opened.ok
           /\ \E n \in PartialWrites(json) :
                  file' = [opened.file EXCEPT
                               !.text = Written(opened.file, json, n)]
           /\ sto' = StoCall("save", "FileError", list)

----------------------------------------------------------------------------
(* JsonStorage under any sequence of calls on one path *)

InitStorage ==
    /\ Default
    /\ deleted = {}
    /\ file \in Files
    /\ sto = NoSto
    /\ pc = "none"
    /\ cmd = NoCmd
    /\ events = <<>>
    /\ runs = 0
    /\ before = NoFile
    /\ issued = {}
    /\ other = NoProcess

NextStorage ==
    \/ /\ sto' = Load(file)
       /\ UNCHANGED <<file, manager, deleted, cli>>
    \/ \E list \in SaveLists :
           Save(list) /\ UNCHANGED <<manager, deleted, cli>>

SpecStorage == InitStorage /\ [][NextStorage]_vars

----------------------------------------------------------------------------
(* The command line (src/src/main.rs) *)

\* what Cli::parse() can return: enum Commands
Commands ==
    {[NoCmd EXCEPT !.name = "add", !.content = c] : c \in Contents}
    \cup {[NoCmd EXCEPT !.name = "edit", !.id = i, !.content = c] :
              i \in ArgIds, c \in Contents}
    \cup {[NoCmd EXCEPT !.name = "list"]}
    \cup {[NoCmd EXCEPT !.name = "list", !.filter = TRUE, !.status = st] :
              st \in TodoStatus}
    \cup {[NoCmd EXCEPT !.name = "status", !.id = i, !.status = st] :
              i \in ArgIds, st \in TodoStatus}
    \cup {[NoCmd EXCEPT !.name = "delete", !.id = i] : i \in ArgIds}

\* the files the first invocation may find at the path
CliFiles ==
    {NoFile, FileText1, FileText5, FileText6, FileText7, FileText8,
     [FileText5 EXCEPT !.readable = FALSE],
     [FileText7 EXCEPT !.writable = FALSE]}

\* a call of the invocation, as events records it
Event(kind, op, res, list) ==
    [kind |-> kind, op |-> op, res |-> res, todos |-> list]

\* a process that holds no TodoManager yet
NoManager ==
    /\ id_counter' = 0
    /\ todos' = <<>>
    /\ origin' = "none"
    /\ initial' = <<>>
    /\ addCount' = 0
    /\ last' = Call("none", NoArg, "none", 0, <<>>)

\* the process starts: Cli::parse() and the choice of the path
Invoke ==
    /\ pc \in {"none", "exit", "panic"}
    /\ runs < MaxRuns
    /\ runs' = runs + 1
    /\ \E command \in Commands : cmd' = command
    /\ pc' = "ensure"
    /\ events' = <<>>
    /\ before' = file
    /\ sto' = NoSto
    /\ NoManager
    /\ UNCHANGED <<file, deleted, issued, other>>

\* ensure_storage_exists(&path).expect(..): when nothing is at the path the
\* file is created empty, or its creation fails and expect panics
EnsureStorageExists ==
    /\ pc = "ensure"
    /\ \/ /\ file.exists
          /\ UNCHANGED file
          /\ pc' = "load"
       \/ /\ ~file.exists
          /\ file' = Stored(<<>>, FALSE, <<>>)
          /\ pc' = "load"
       \/ /\ ~file.exists
          /\ UNCHANGED file
          /\ pc' = "panic"
    /\ UNCHANGED <<manager, deleted, sto, cmd, events, runs, before, issued, other>>

\* load(&path).unwrap_or_default(): a failed load taken for an empty list
AfterLoadDefault(res) == "new"

\* load(&path).unwrap_or_else(|e| panic!("{e}"))
AfterLoad(res) == IF res = "Ok" THEN "new" ELSE "panic"

AinLoad ==
    /\ pc = "load"
    /\ sto' = Load(file)
    /\ events' = Append(events, Event("load", "load", sto'.res, sto'.todos))
    /\ pc' = AfterLoad(sto'.res)
    /\ UNCHANGED <<file, manager, deleted, cmd, runs, before, issued, other>>

\* let mut todo_manager = TodoManager::new(todos)
AinNew ==
    /\ pc = "new"
    /\ id_counter' = MaxId(sto.todos)
    /\ todos' = sto.todos
    /\ origin' = "new"
    /\ initial' = sto.todos
    /\ addCount' = 0
    /\ last' = Call("new", NoArg, "Manager", 0, <<>>)
    /\ pc' = "match"
    /\ UNCHANGED <<deleted, storage, cmd, events, runs, before, issued, other>>

\* match cli.command: the one call on the manager; a NotFound is printed and
\* the invocation goes on, a panic ends it
AinMatch ==
    /\ pc = "match"
    /\ \/ cmd.name = "add" /\ AddTodo(cmd.content)
       \/ cmd.name = "edit" /\ EditTodoContent(cmd.id, cmd.content)
       \/ cmd.name = "list" /\ cmd.filter /\ TodosByStatus(cmd.status)
       \/ cmd.name = "list" /\ ~cmd.filter /\ AllTodos
       \/ cmd.name = "status" /\ ChangeTodoStatus(cmd.id, cmd.status)
       \/ cmd.name = "delete" /\ DeleteTodo(cmd.id)
    /\ events' = Append(events, Event("op", last'.op, last'.res, <<>>))
    /\ pc' = IF last'.res = "Panic" THEN "panic" ELSE "save"
    /\ issued' = IF last'.op = "add_todo" /\ last'.res = "Id"
                 THEN issued \cup {last'.resId}
                 ELSE issued
    /\ UNCHANGED <<deleted, storage, cmd, runs, before, other>>

\* save(&todo_manager.all_todos(), &path).unwrap_or_else(|e| panic!("{e}"))
AinSave ==
    /\ pc = "save"
    /\ Save(todos)
    /\ events' = Append(events, Event("save", "save", sto'.res, todos))
    /\ pc' = IF sto'.res = "Ok" THEN "exit" ELSE "panic"
    /\ UNCHANGED <<manager, deleted, cmd, runs, before, issued, other>>

InitCli ==
    /\ Default
    /\ deleted = {}
    /\ file \in CliFiles
    /\ sto = NoSto
    /\ pc = "none"
    /\ cmd = NoCmd
    /\ events = <<>>
    /\ runs = 0
    /\ before = NoFile
    /\ issued = {}
    /\ other = NoProcess

NextCli ==
    \/ Invoke
    \/ EnsureStorageExists
    \/ AinLoad
    \/ AinNew
    \/ AinMatch
    \/ AinSave

SpecCli == InitCli /\ [][NextCli]_vars

----------------------------------------------------------------------------
(* A manager that starts empty and receives six calls, as the example of the
   module documentation does (src/src/todo_manager.rs 9-45): two add_todo, a
   change_todo_status, a todos_by_status, a delete_todo and a todo_by_id,
   with any arguments *)

\* the contents handed to add_todo
ScenarioContents == {"Write report", "Buy milk"}

\* the call just made, appended to the calls made so far
Logged == events' = Append(events, last')

InitScenario ==
    /\ Default
    /\ deleted = {}
    /\ OutsideIdle

NextScenario ==
    \/ /\ Len(events) < 2
       /\ \E content \in ScenarioContents : AddTodo(content)
       /\ Logged
       /\ UNCHANGED <<deleted, storage, pc, cmd, runs, before, issued, other>>
    \/ /\ Len(events) = 2
       /\ \E id \in ArgIds, state \in TodoStatus : ChangeTodoStatus(id, state)
       /\ Logged
       /\ UNCHANGED <<deleted, storage, pc, cmd, runs, before, issued, other>>
    \/ /\ Len(events) = 3
       /\ \E status \in TodoStatus : TodosByStatus(status)
       /\ Logged
       /\ UNCHANGED <<deleted, storage, pc, cmd, runs, before, issued, other>>
    \/ /\ Len(events) = 4
       /\ \E id \in ArgIds : DeleteTodo(id)
       /\ Logged
       /\ UNCHANGED <<deleted, storage, pc, cmd, runs, before, issued, other>>
    \/ /\ Len(events) = 5
       /\ \E id \in ArgIds : TodoById(id)
       /\ Logged
       /\ UNCHANGED <<deleted, storage, pc, cmd, runs, before, issued, other>>

SpecScenario == InitScenario /\ [][NextScenario]_vars

----------------------------------------------------------------------------
(* Two invocations at once on one file.  Each process has its own memory;
   the variables of the manager and of the invocation hold the memory of the
   process that runs, other holds the memory of the process that waits, and
   a switch of the scheduler exchanges them.  The file is shared.  A save is
   two steps here, the open that truncates and the write, so that the steps
   of the two processes interleave as the system calls do. *)

\* the memory of the process that runs
Context ==
    [id_counter |-> id_counter, todos |-> todos, origin |-> origin,
     initial |-> initial, addCount |-> addCount, last |-> last,
     sto |-> sto, pc |-> pc, cmd |-> cmd, events |-> events,
     before |-> before]

\* the memory of a process that has parsed its command and found the file f
\* at the path, and is about to load
Parsed(command, f) ==
    [id_counter |-> 0, todos |-> <<>>, origin |-> "none",
     initial |-> <<>>, addCount |-> 0,
     last |-> Call("none", NoArg, "none", 0, <<>>),
     sto |-> NoSto, pc |-> "load", cmd |-> command, events |-> <<>>,
     before |-> f]

\* the process that runs has the memory m
Running(m) ==
    /\ id_counter = m.id_counter
    /\ todos = m.todos
    /\ origin = m.origin
    /\ initial = m.initial
    /\ addCount = m.addCount
    /\ last = m.last
    /\ sto = m.sto
    /\ pc = m.pc
    /\ cmd = m.cmd
    /\ events = m.events
    /\ before = m.before

\* the commands of the two invocations
RaceCommands ==
    {[NoCmd EXCEPT !.name = "add", !.content = "a"],
     [NoCmd EXCEPT !.name = "edit", !.id = 1, !.content = "b"],
     [NoCmd EXCEPT !.name = "status", !.id = 0, !.status = "Done"],
     [NoCmd EXCEPT !.name = "delete", !.id = 0],
     [NoCmd EXCEPT !.name = "delete", !.id = 1],
     [NoCmd EXCEPT !.name = "list"]}

\* the files the two invocations may find
RaceFiles == {FileText1, FileText5}

\* the scheduler takes the processor from one process and gives it to the
\* other
Switch ==
    /\ other.pc # "none"
    /\ other' = Context
    /\ id_counter' = other.id_counter
    /\ todos' = other.todos
    /\ origin' = other.origin
    /\ initial' = other.initial
    /\ addCount' = other.addCount
    /\ last' = other.last
    /\ sto' = other.sto
    /\ pc' = other.pc
    /\ cmd' = other.cmd
    /\ events' = other.events
    /\ before' = other.before
    /\ UNCHANGED <<file, deleted, runs, issued>>

\* what a text is: an array of todos or not, and of which todos
Described(f) ==
    LET parsed == FromStr(f.text)
    IN  [f EXCEPT !.wf = parsed.ok,
                  !.list = IF parsed.ok THEN parsed.val ELSE <<>>]

\* save, first step: serde_json::to_string and File::options()...open(path),
\* once the other process has loaded
SaveOpen ==
    /\ pc = "save"
    /\ other.pc # "load"
    /\ LET opened == OpenTruncate(file)
       IN  /\ file' = opened.file
           /\ IF opened.ok
              THEN /\ pc' = "write"
                   /\ UNCHANGED <<sto, events>>
              ELSE /\ pc' = "panic"
                   /\ sto' = StoCall("save", "FileError", todos)
                   /\ events' = Append(events,
                                       Event("save", "save", "FileError", todos))
    /\ UNCHANGED <<manager, deleted, cmd, runs, before, issued, other>>

\* save, second step: write!(file, "{json}") from the start of the file, over
\* what the file holds by now
SaveWrite ==
    /\ pc = "write"
    /\ LET json == ToJsonString(todos)
       IN  \/ /\ file' = Described([file EXCEPT
                                        !.text = Written(file, json, Len(json))])
              /\ sto' = StoCall("save", "Ok", todos)
              /\ pc' = "exit"
           \/ /\ \E n \in PartialWrites(json) :
                     file' = Described([file EXCEPT
                                            !.text = Written(file, json, n)])
              /\ sto' = StoCall("save", "FileError", todos)
              /\ pc' = "panic"
    /\ events' = Append(events, Event("save", "save", sto'.res, todos))
    /\ UNCHANGED <<manager, deleted, cmd, runs, before, issued, other>>

InitRace ==
    /\ file \in RaceFiles
    /\ \E mine \in RaceCommands, theirs \in RaceCommands :
           /\ Running(Parsed(mine, file))
           /\ other = Parsed(theirs, file)
    /\ deleted = {}
    /\ runs = 0
    /\ issued = {}

NextRace ==
    \/ Switch
    \/ AinLoad
    \/ AinNew
    \/ AinMatch
    \/ SaveOpen
    \/ SaveWrite

SpecRace == InitRace /\ [][NextRace]_vars

----------------------------------------------------------------------------
(* Vocabulary of the properties *)

HasId(ts, id) == \E i \in 1..Len(ts) : ts[i].id = id

DistinctIds(ts) == \A i, j \in 1..Len(ts) : i # j => ts[i].id # ts[j].id

\* the largest id of a list, 0 for the empty list
LargestId(ts) ==
    IF ts = <<>> THEN 0
    ELSE CHOOSE m \in {ts[i].id : i \in 1..Len(ts)} :
             \A i \in 1..Len(ts) : ts[i].id <= m

\* the todo at the lowest position among those with the given id
FirstWithId(ts, id) ==
    ts[CHOOSE i \in 1..Len(ts) :
           ts[i].id = id /\ \A j \in 1..(i - 1) : ts[j].id # id]

\* r lists, in the order of ts, exactly the todos of ts whose status is s
IsStatusSubsequence(r, ts, s) ==
    LET I == {i \in 1..Len(ts) : ts[i].status = s}
    IN  /\ Len(r) = Cardinality(I)
        /\ \A k \in 1..Len(r) :
               \E i \in I : /\ Cardinality({j \in I : j <= i}) = k
                            /\ r[k] = ts[i]

ByIdMutators == {"edit_todo_content", "change_todo_status", "delete_todo"}

----------------------------------------------------------------------------
(* Properties *)

\* C1: on a manager constructed empty, whatever calls come in between, the
\* k-th call of add_todo returns k (ids start at 1, rise by one, and an id
\* is not handed out again after its todo was deleted).
C1_KthAddReturnsK ==
    (initial = <<>> /\ last.op = "add_todo")
        => (last.res = "Id" /\ last.resId = addCount)

\* C1 witness: the second add_todo on an empty-constructed manager, made
\* after the first todo was deleted, returned 2.
C1_Witness ==
    /\ initial = <<>>
    /\ last.op = "add_todo"
    /\ addCount = 2
    /\ last.resId = 2
    /\ Len(todos) = 1

\* C2: a manager constructed empty, or from a list whose ids are pairwise
\* distinct, never holds two todos with the same id.
C2_IdsStayDistinct == DistinctIds(initial) => DistinctIds(todos)

\* C3: TodoManager::new adopts the list unchanged and sets the counter to the
\* largest id in it (0 for the empty list), and the first add_todo after
\* construction returns that largest id plus one.
C3_ConstructThenFirstAdd ==
    /\ last.op \in {"new", "default"}
           => (todos = initial /\ id_counter = LargestId(initial))
    /\ (last.op = "add_todo" /\ addCount = 1)
           => (last.res = "Id" /\ last.resId = LargestId(initial) + 1)

\* C4: add_todo raises the counter by exactly 1, appends one Open todo with
\* the new counter value as id and the given content, returns that id, and
\* leaves every todo held before where and as it was.
C4_AddEffect ==
    [][last'.op = "add_todo"
         => /\ id_counter' = id_counter + 1
            /\ todos' = Append(todos, [id |-> id_counter',
                                       content |-> last'.content,
                                       status |-> "Open"])
            /\ last'.res = "Id"
            /\ last'.resId = id_counter']_vars

\* C5: edit_todo_content, change_todo_status and delete_todo, called with an
\* id no todo has, return NotFound carrying that id and leave the list and
\* the counter as they were.
C5_NotFoundChangesNothing ==
    [][(last'.op \in ByIdMutators /\ ~HasId(todos, last'.id))
         => /\ last'.res = "NotFound"
            /\ last'.resId = last'.id
            /\ todos' = todos
            /\ id_counter' = id_counter]_vars

\* C5 witness: delete_todo of an absent id on a manager holding two todos
\* returned NotFound.
C5_Witness ==
    /\ last.op = "delete_todo"
    /\ last.res = "NotFound"
    /\ ~HasId(todos, last.id)
    /\ Len(todos) = 2

\* C6: delete_todo of an id some todo has returns Ok and removes exactly one
\* todo, one with that id: the list is one shorter, the other todos are
\* unchanged and in the same order, and the counter is unchanged.
C6_DeleteEffect ==
    [][(last'.op = "delete_todo" /\ HasId(todos, last'.id))
         => /\ last'.res = "Ok"
            /\ Len(todos') = Len(todos) - 1
            /\ id_counter' = id_counter
            /\ \E p \in 1..Len(todos) :
                   /\ todos[p].id = last'.id
                   /\ \A i \in 1..Len(todos') :
                          todos'[i] = IF i < p THEN todos[i] ELSE todos[i + 1]]_vars

\* C6 witness: delete_todo(1) succeeded and left two todos, the second one
\* being the todo added with id 2.
C6_Witness ==
    /\ last.op = "delete_todo"
    /\ last.res = "Ok"
    /\ last.id = 1
    /\ Len(todos) = 2
    /\ todos[2].id = 2

\* C7: edit_todo_content of an id some todo has returns Ok; afterwards
\* todo_by_id(id) has the given content, and that todo's id, status and
\* position, every other todo, the length and the counter are unchanged.
C7_EditEffect ==
    [][(last'.op = "edit_todo_content" /\ HasId(todos, last'.id))
         => /\ last'.res = "Ok"
            /\ HasId(todos', last'.id)
            /\ FirstWithId(todos', last'.id).content = last'.content
            /\ Len(todos') = Len(todos)
            /\ id_counter' = id_counter
            /\ \E p \in 1..Len(todos) :
                   /\ todos[p].id = last'.id
                   /\ todos' = [todos EXCEPT ![p].content = last'.content]]_vars

\* C7 witness: edit_todo_content succeeded on a todo that is Done, in a list
\* of at least two todos, and the todo now reads "b".
C7_Witness ==
    /\ last.op = "edit_todo_content"
    /\ last.res = "Ok"
    /\ last.content = "b"
    /\ Len(todos) >= 2
    /\ \E i \in 1..Len(todos) :
           /\ todos[i].id = last.id
           /\ todos[i].content = "b"
           /\ todos[i].status = "Done"

\* C8: change_todo_status of an id some todo has returns Ok; afterwards
\* todo_by_id(id) has the given status, and that todo's id, content and
\* position, every other todo, the length and the counter are unchanged.
C8_StatusEffect ==
    [][(last'.op = "change_todo_status" /\ HasId(todos, last'.id))
         => /\ last'.res = "Ok"
            /\ HasId(todos', last'.id)
            /\ FirstWithId(todos', last'.id).status = last'.status
            /\ Len(todos') = Len(todos)
            /\ id_counter' = id_counter
            /\ \E p \in 1..Len(todos) :
                   /\ todos[p].id = last'.id
                   /\ todos' = [todos EXCEPT ![p].status = last'.status]]_vars

\* C8 witness: change_todo_status(id, Done) succeeded on a todo with content
\* "b" while another todo of the list is not Done.
C8_Witness ==
    /\ last.op = "change_todo_status"
    /\ last.res = "Ok"
    /\ last.status = "Done"
    /\ \E i, j \in 1..Len(todos) :
           /\ i # j
           /\ todos[i].id = last.id
           /\ todos[i].status = "Done"
           /\ todos[i].content = "b"
           /\ todos[j].status # "Done"

\* C9: todo_by_id returns a todo of the list with the given id when there is
\* one and None exactly when there is none; it never fails and changes
\* neither the list nor the counter.
C9_TodoById ==
    [][last'.op = "todo_by_id"
         => /\ todos' = todos
            /\ id_counter' = id_counter
            /\ last'.res \in {"Some", "None"}
            /\ (last'.res = "None") <=> ~HasId(todos, last'.id)
            /\ (last'.res = "None") => (last'.resTodos = <<>>)
            /\ (last'.res = "Some")
                   => /\ Len(last'.resTodos) = 1
                      /\ last'.resTodos[1].id = last'.id
                      /\ \E i \in 1..Len(todos) :
                             todos[i] = last'.resTodos[1]]_vars

\* C9 witness: todo_by_id found the todo at the second position of a list
\* whose first todo has another id.
C9_Witness ==
    /\ last.op = "todo_by_id"
    /\ last.res = "Some"
    /\ Len(todos) >= 2
    /\ todos[1].id # last.id
    /\ last.resTodos = <<todos[2]>>

\* C10: todos_by_status returns, in list order, exactly the todos whose
\* status is the given one, and changes neither the list nor the counter.
C10_TodosByStatus ==
    [][last'.op = "todos_by_status"
         => /\ todos' = todos
            /\ id_counter' = id_counter
            /\ last'.res = "List"
            /\ IsStatusSubsequence(last'.resTodos, todos, last'.status)]_vars

\* C10 witness: todos_by_status returned the first and the third of three
\* todos, the second having another status.
C10_Witness ==
    /\ last.op = "todos_by_status"
    /\ Len(todos) = 3
    /\ todos[2].status # last.status
    /\ last.resTodos = <<todos[1], todos[3]>>

\* C11: all_todos returns every todo of the manager once, in list order
\* (the empty list when there is none), and changes neither the list nor
\* the counter.
C11_AllTodos ==
    [][last'.op = "all_todos"
         => /\ todos' = todos
            /\ id_counter' = id_counter
            /\ last'.res = "List"
            /\ Len(last'.resTodos) = Len(todos)
            /\ \A i \in 1..Len(todos) : last'.resTodos[i] = todos[i]
            /\ (todos = <<>>) => (last'.resTodos = <<>>)]_vars

\* C11 witness: all_todos listed three todos, one of an earlier four having
\* been deleted.
C11_Witness ==
    /\ last.op = "all_todos"
    /\ addCount = 2
    /\ Len(todos) = 3
    /\ Len(last.resTodos) = 3

\* C12: once delete_todo(id) has succeeded on a manager whose ids are pairwise
\* distinct, no todo has that id again: todo_by_id(id) returns None and
\* delete_todo, edit_todo_content and change_todo_status of it return NotFound.
C12_DeletedStaysAbsent ==
    [][/\ \A d \in deleted' : ~HasId(todos', d)
       /\ (last'.op = "todo_by_id" /\ last'.id \in deleted)
              => (last'.res = "None")
       /\ (last'.op \in ByIdMutators /\ last'.id \in deleted)
              => (last'.res = "NotFound")]_vars

\* C13: add_todo never fails: it returns an id and leaves the counter
\* strictly greater than it was.
C13_AddNeverFails ==
    [][last'.op = "add_todo"
         => (last'.res = "Id" /\ id_counter' > id_counter)]_vars

\* the ids of the list are those it had, but for the todo a successful
\* delete_todo took out and the todo an add_todo put at the end
IdsKept ==
    IF last'.op = "delete_todo" /\ last'.res = "Ok"
    THEN \E p \in 1..Len(todos) :
             /\ Len(todos') = Len(todos) - 1
             /\ \A i \in 1..Len(todos') :
                    todos'[i].id = IF i < p THEN todos[i].id ELSE todos[i + 1].id
    ELSE /\ Len(todos') >= Len(todos)
         /\ \A i \in 1..Len(todos) : todos'[i].id = todos[i].id

\* C14 (as stated): every todo a manager holds has an id >= 1, and no
\* operation changes the id of a todo of the list.
C14_IdsPositive ==
    /\ [](\A i \in 1..Len(todos) : todos[i].id >= 1)
    /\ [][IdsKept]_vars

\* C14 (amended): every todo of a manager that was constructed empty has an
\* id >= 1 (a manager constructed from a list holds the ids it was given, 0
\* included), and no operation changes the id of a todo of the list.
C14_IdsPositiveFromEmpty ==
    /\ []((initial = <<>>) => \A i \in 1..Len(todos) : todos[i].id >= 1)
    /\ [][IdsKept]_vars

\* C14 witness: a manager constructed empty holds two todos, the last call
\* having edited one of them.
C14_Witness ==
    /\ initial = <<>>
    /\ Len(todos) = 2
    /\ last.op = "edit_todo_content"
    /\ last.res = "Ok"
    /\ last.content = "b"

\* whether a text is nothing but whitespace, character by character
Blank(text) == \A i \in 1..Len(text) : text[i] \in RustWs

\* C15: a load that follows a save that returned Ok returns Ok with the list
\* that was saved: the same length, the same todos in the same order,
\* whatever the file held before the save.
C15_RoundTrip ==
    [][(sto.op = "save" /\ sto.res = "Ok" /\ sto'.op = "load")
       => (sto'.res = "Ok" /\ sto'.todos = sto.todos)]_vars

\* C15, for a file that may also be read: a load of a readable file that
\* follows a save that returned Ok returns Ok with the list that was saved,
\* whatever the file held before the save.  A file that may be written but
\* not read takes the save and fails the load with FileError.
C15_RoundTripReadable ==
    [][(sto.op = "save" /\ sto.res = "Ok" /\ sto'.op = "load" /\ file.readable)
       => (sto'.res = "Ok" /\ sto'.todos = sto.todos)]_vars

\* C15 witness: a load returned the three todos no file held at the start
\* (the largest id, a repeated id, every status, an escaped content), so they
\* were saved over what the file held.
C15_Witness ==
    /\ sto.op = "load"
    /\ sto.res = "Ok"
    /\ Len(sto.todos) = 3
    /\ sto.todos[1] = [id |-> USIZE_MAX, content |-> "\"\\", status |-> "Done"]
    /\ sto.todos[2].id = sto.todos[3].id

\* C16: load returns FileError(path) when the file cannot be read; Ok with no
\* todos when the text read is empty or only whitespace; ParseError(path)
\* when the text is not blank and not an array of todos; and otherwise Ok
\* with the todos of the array in their order.
C16_LoadOutcomes ==
    [][sto'.op = "load"
       => /\ sto'.loc = Path
          /\ IF ~(file.exists /\ file.readable)
             THEN sto'.res = "FileError"
             ELSE IF Blank(file.text)
                  THEN sto'.res = "Ok" /\ sto'.todos = <<>>
             ELSE IF ~file.wf
                  THEN sto'.res = "ParseError"
             ELSE sto'.res = "Ok" /\ sto'.todos = file.list]_vars

\* C16 witness: load returned the three todos of the file that has a repeated
\* id and a field Todo lacks, in the order of the file.
C16_Witness ==
    /\ file = FileText7
    /\ sto.op = "load"
    /\ sto.res = "Ok"
    /\ sto.todos = FileText7.list

\* C17: save on a path where no file exists, or whose file may not be
\* written, returns FileError(path); no file is created and the file that
\* exists keeps its text.
C17_SaveCannotOpen ==
    [][(sto'.op = "save" /\ ~(file.exists /\ file.writable))
       => (sto'.res = "FileError" /\ sto'.loc = Path /\ file' = file)]_vars

\* C17 witness: save returned FileError where no file exists.
C17_Witness ==
    /\ sto.op = "save"
    /\ sto.res = "FileError"
    /\ sto.todos # <<>>
    /\ file = NoFile

\* the load of the invocation returned Ok / returned an error
LoadSucceeded ==
    events # <<>> /\ events[1].kind = "load" /\ events[1].res = "Ok"

LoadFailed ==
    events # <<>> /\ events[1].kind = "load" /\ events[1].res # "Ok"

ManagerOps ==
    {"add_todo", "edit_todo_content", "change_todo_status", "delete_todo",
     "all_todos", "todos_by_status"}

\* C18: the calls of an invocation are a load, then one operation of the
\* manager, then a save, in this order and never more; and an invocation
\* whose load returned Ok and that has ended made all three: one load, one of
\* the six operations (a NotFound included), one save of all_todos().
C18_LoadOpSave ==
    /\ Len(events) <= 3
    /\ \A i \in 1..Len(events) : events[i].kind = <<"load", "op", "save">>[i]
    /\ (Len(events) >= 2) => events[2].op \in ManagerOps
    /\ (LoadSucceeded /\ pc \in {"exit", "panic"})
       => /\ Len(events) = 3
          /\ events[3].todos = todos

\* C19: an invocation whose load returned an error has panicked, has made no
\* other call (no operation of the manager, no save), holds no manager, and
\* the file is as the invocation found it.
C19_LoadFailureHalts ==
    LoadFailed
    => /\ pc = "panic"
       /\ Len(events) = 1
       /\ origin = "none"
       /\ file = before

\* C19 witness: the second invocation, an add, found the file the first
\* invocation left half written, and its load returned ParseError.
C19_Witness ==
    /\ LoadFailed
    /\ runs = 2
    /\ cmd.name = "add"
    /\ sto.res = "ParseError"
    /\ file.text # <<>>
    /\ file.text # FileText8.text

\* C20: whatever the status of a todo, change_todo_status can give it any of
\* the three statuses: for every id some todo has and every status, the call
\* is possible, returns Ok and leaves todo_by_id(id) with that status.
C20_AnyStatusToAny ==
    \A id \in ArgIds, state \in TodoStatus :
        (Alive /\ HasId(todos, id))
            => ENABLED (/\ ChangeTodoStatus(id, state)
                        /\ last'.res = "Ok"
                        /\ FirstWithId(todos', id).status = state)

\* C20 witness: a todo that was made Done and then edited was put back to
\* Open by change_todo_status.
C20_Witness ==
    /\ last.op = "change_todo_status"
    /\ last.res = "Ok"
    /\ last.status = "Open"
    /\ \E i \in 1..Len(todos) :
           /\ todos[i].id = last.id
           /\ todos[i].status = "Open"
    /\ \E j \in 1..Len(todos) : todos[j].status = "Done"

\* the calls of the end-to-end run, in order, and what each is to return
ScenarioCalls ==
    <<Call("add_todo", [NoArg EXCEPT !.content = "Write report"], "Id", 1, <<>>),
      Call("add_todo", [NoArg EXCEPT !.content = "Buy milk"], "Id", 2, <<>>),
      Call("change_todo_status", [NoArg EXCEPT !.id = 1, !.status = "InProgress"],
           "Ok", 0, <<>>),
      Call("todos_by_status", [NoArg EXCEPT !.status = "Open"], "List", 0,
           <<[id |-> 2, content |-> "Buy milk", status |-> "Open"]>>),
      Call("delete_todo", [NoArg EXCEPT !.id = 1], "Ok", 0, <<>>),
      Call("todo_by_id", [NoArg EXCEPT !.id = 1], "None", 0, <<>>)>>

\* the same method called with the same arguments
SameCall(c, d) ==
    /\ c.op = d.op
    /\ c.id = d.id
    /\ c.content = d.content
    /\ c.status = d.status

\* C21: on a manager that starts empty, as long as the calls made are those
\* of the end-to-end run (add "Write report", add "Buy milk", status of 1 to
\* InProgress, the Open todos, delete 1, find 1), each returns what the
\* run expects: 1, 2, Ok, exactly the todo {2, "Buy milk", Open}, Ok, None.
C21_EndToEnd ==
    \A k \in 1..Len(events) :
        (\A j \in 1..k : SameCall(events[j], ScenarioCalls[j]))
        => /\ events[k].res = ScenarioCalls[k].res
           /\ events[k].resId = ScenarioCalls[k].resId
           /\ events[k].resTodos = ScenarioCalls[k].resTodos

\* C21 witness: the six calls of the run were made and the list holds
\* the one todo left.
C21_Witness ==
    /\ Len(events) = 6
    /\ \A j \in 1..6 : SameCall(events[j], ScenarioCalls[j])
    /\ todos = <<[id |-> 2, content |-> "Buy milk", status |-> "Open"]>>

\* the lowest position among the todos of ts with the given id
LowestPos(ts, id) ==
    CHOOSE i \in 1..Len(ts) : ts[i].id = id /\ \A j \in 1..(i - 1) : ts[j].id # id

\* C23: on a manager constructed from a list in which an id occurs more
\* than once, a call by an id the list holds concerns the first todo with
\* that id and no other: todo_by_id returns it, edit_todo_content and
\* change_todo_status write it alone, delete_todo removes it alone and keeps
\* the rest in order.
C23_FirstMatch ==
    [][(/\ origin = "new"
        /\ ~DistinctIds(initial)
        /\ last'.op \in ByIdMutators \cup {"todo_by_id"}
        /\ HasId(todos, last'.id))
       => LET p == LowestPos(todos, last'.id)
          IN  /\ last'.op = "todo_by_id"
                 => /\ last'.res = "Some"
                    /\ last'.resTodos = <<todos[p]>>
                    /\ todos' = todos
              /\ last'.op = "edit_todo_content"
                 => /\ last'.res = "Ok"
                    /\ todos' = [todos EXCEPT ![p].content = last'.content]
              /\ last'.op = "change_todo_status"
                 => /\ last'.res = "Ok"
                    /\ todos' = [todos EXCEPT ![p].status = last'.status]
              /\ last'.op = "delete_todo"
                 => /\ last'.res = "Ok"
                    /\ Len(todos') = Len(todos) - 1
                    /\ \A i \in 1..Len(todos') :
                           todos'[i] = IF i < p THEN todos[i] ELSE todos[i + 1]]_vars

\* C23 witness: of two todos with id 1, the first was made Done and edited,
\* the second was not touched, and todo_by_id(1) returned the first.
C23_Witness ==
    /\ Len(initial) = 2
    /\ initial[1].id = 1
    /\ initial[2].id = 1
    /\ Len(todos) = 2
    /\ todos[1] = [id |-> 1, content |-> "b", status |-> "Done"]
    /\ todos[2] = initial[2]
    /\ last.op = "todo_by_id"
    /\ last.id = 1
    /\ last.resTodos = <<todos[1]>>

\* C24: in every state the counter is at least the id of every todo of the
\* list; no call lowers the counter and only add_todo changes it.
C24_CounterBounds ==
    /\ [](\A i \in 1..Len(todos) : todos[i].id <= id_counter)
    /\ [][/\ id_counter' >= id_counter
          /\ (id_counter' # id_counter) => (last'.op = "add_todo")]_vars

\* C27: when save returns an error on a file from which load returns a list,
\* a load after the save returns Ok with the same list: never an error,
\* another list or the empty list.
C27_FailedSaveKeepsFile ==
    [][(sto'.op = "save" /\ sto'.res # "Ok" /\ Load(file).res = "Ok")
       => (Load(file').res = "Ok" /\ Load(file').todos = Load(file).todos)]_vars

\* an invocation that has ended after a list, or after an edit, a status
\* change or a delete that returned NotFound
ListedOrNotFound ==
    /\ pc \in {"exit", "panic"}
    /\ LoadSucceeded
    /\ Len(events) >= 2
    /\ \/ events[2].op \in {"all_todos", "todos_by_status"}
       \/ events[2].op \in ByIdMutators /\ events[2].res = "NotFound"

\* C26: after an invocation that listed, or whose edit, status change or
\* delete returned NotFound, the file holds the list the invocation loaded:
\* a load returns Ok with the same todos in the same order.
C26_ListKeepsStored ==
    ListedOrNotFound
    => /\ Load(file).res = "Ok"
       /\ Load(file).todos = events[1].todos

\* C25: over successive invocations on one file, the id add_todo returns in
\* an invocation is none of the ids add_todo returned in the invocations
\* before it, whatever was deleted in between.
C25_NoReuseAcrossRuns ==
    [][(pc = "match" /\ last'.op = "add_todo" /\ last'.res = "Id")
       => last'.resId \notin issued]_vars

\* C22: of two invocations that both loaded before either began to save,
\* the one whose save returns Ok after the save of the other has returned Ok
\* leaves in the file exactly the list it saved: a load returns Ok with that
\* list, in which what the other invocation did does not appear.
C22_LastWriterWins ==
    [][(pc = "write" /\ pc' = "exit" /\ other' = other /\ other.pc = "exit")
       => (Load(file').res = "Ok" /\ Load(file').todos = todos)]_vars

====
